---------------------------- MODULE Spec2Model ----------------------------
(***************************************************************************)
(* Duplicate resolver of the Calibre tools (find_duplicates_sql.py): the   *)
(* SQL grouping of duplicate books, the keeper scorer and selector, and    *)
(* the run of main() over the duplicate groups with its prompts, its       *)
(* calls of `calibredb remove` and its deletion log; and the groupers of   *)
(* calibre_tools/duplicate_finder.py: normalize_string, the exact, the     *)
(* similar-title and the ISBN grouper.                                     *)
(***************************************************************************)
EXTENDS Integers, Sequences, FiniteSets, TLC

VARIABLES
    args,             \* parsed command line: find_only, interactive, auto_delete, dry_run
    library,          \* the books of metadata.db: book id -> row
    pc,               \* position of main()
    duplicate_groups, \* result of find_duplicates_sql: list of lists of ids
    books,            \* result of get_book_details: id -> details dict
    gi,               \* 1-based index of the group the loop of main() is at
    keeper_id,        \* main(): keeper_id of the current group
    to_delete,        \* main(): to_delete of the current group
    di,               \* 1-based index into to_delete of the delete loop
    deletion_log,     \* main(): the in-memory list deletion_log
    total_to_delete,  \* main(): the counter total_to_delete
    log_file,         \* entries appended to ~/.calibre_tools/deletion_log.txt
    calls,            \* history: calls of delete_book, in order
    prompts,          \* history: group indexes for which input() was called
    decisions,        \* history: per processed group, the decision acted on
    step,             \* position of a call of score_book or of a grouper
    record,           \* score_book: the book scored
    other,            \* score_book: a second book scored with the same priority
    priority,         \* score_book: the argument format_priority
    scores,           \* score_book: what the two calls returned
    metadata,         \* duplicate_finder: the list books handed to a grouper
    similarity_threshold, \* find_similar_titles: the threshold, in hundredths
    duplicates,       \* duplicate_finder: what the grouper returned
    returncode,       \* get_calibre_metadata: the exit code of calibredb list
    fetched,          \* history: how often calibredb list was run
    text,             \* normalize_string: the argument s
    normalized        \* normalize_string: what the calls returned

\* the variables of main()
mainVars == <<args, library, pc, duplicate_groups, books, gi, keeper_id, to_delete,
              di, deletion_log, total_to_delete, log_file, calls, prompts, decisions>>

\* the variables of the calls of score_book
scoreVars == <<record, other, priority, scores>>

\* the variables of the calls of the groupers of duplicate_finder.py
finderVars == <<metadata, similarity_threshold, duplicates>>

\* the variables of the calls of get_calibre_metadata
fetchVars == <<returncode, fetched>>

\* the variables of the calls of normalize_string
stringVars == <<text, normalized>>

vars == <<mainVars, step, scoreVars, finderVars, fetchVars, stringVars>>

-----------------------------------------------------------------------------
(* Bounds of the model *)

\* number of books in the library
MaxBooks == 3

\* Book ids of the library, in the order they are added to the model.  8 is
\* there because a CPython set of small ints enumerates 8 before 1.
IdPool == <<1, 2, 8, 3, 4>>

BookIds == {IdPool[i] : i \in 1..MaxBooks}

\* integers typed at the keeper prompt that are no book of the library
StrangerIds == {99}

\* longest list of formats of a book handed to score_book
MaxFormats == 2

\* number of records a grouper of duplicate_finder.py is handed, each free
\* over the records of its pool; one more record of a few comes on top
MaxRecords == 2

\* longest title of a record handed to find_similar_titles
MaxTitle == 3

\* longest string handed to normalize_string on its own
MaxText == 4

-----------------------------------------------------------------------------
(* Strings as sequences of characters, and SQLite's LOWER and TRIM *)

LowerChar(c) ==
    CASE c = "A" -> "a"
      [] c = "B" -> "b"
      [] c = "I" -> "i"
      [] c = "N" -> "n"
      [] c = "S" -> "s"
      [] c = "X" -> "x"
      [] c = "Y" -> "y"
      [] OTHER -> c

Lower(s) == [i \in 1..Len(s) |-> LowerChar(s[i])]

RECURSIVE TrimLeft(_)
TrimLeft(s) ==
    IF s # <<>> /\ Head(s) = " " THEN TrimLeft(Tail(s)) ELSE s

RECURSIVE TrimRight(_)
TrimRight(s) ==
    IF s # <<>> /\ s[Len(s)] = " " THEN TrimRight(SubSeq(s, 1, Len(s) - 1)) ELSE s

Trim(s) == TrimRight(TrimLeft(s))

\* LOWER(TRIM(x)) of the JOIN condition
SqlKey(s) == Lower(Trim(s))

-----------------------------------------------------------------------------
(* The rows of the library *)

NullText == <<>>

\* what the comments table holds for a magazine issue
MagazineComment == <<"p", "e", "r", "i", "o", "d", "i", "c", "a", "l", "/",
                     "m", "a", "g", "a", "z", "i", "n", "e", " ",
                     "i", "s", "s", "u", "e">>

\* c.text LIKE '%periodical/magazine issue%' (lines 70-71): c contains the text
ContainsMagazine(c) ==
    \E i \in 1..(Len(c) - Len(MagazineComment) + 1) :
        SubSeq(c, i, i + Len(MagazineComment) - 1) = MagazineComment

\* a date column: SQL NULL, a string datetime.fromisoformat rejects, the
\* empty string, or an ISO string of the given whole day since the epoch
NullDate == [kind |-> "null", days |-> 0]
BadDate == [kind |-> "bad", days |-> 0]
EmptyDate == [kind |-> "empty", days |-> 0]
IsoDate(d) == [kind |-> "iso", days |-> d]

\* title, author_sort and comments a book of the model may have: the first
\* two differ in case and blanks only, the third in the author, the fourth
\* is a magazine issue
Catalogued ==
    { [title |-> <<"a">>, author_sort |-> <<"x">>, comments |-> NullText],
      [title |-> <<" ", "A">>, author_sort |-> <<"X", " ">>, comments |-> NullText],
      [title |-> <<"a">>, author_sort |-> <<"y">>, comments |-> NullText],
      [title |-> <<"a">>, author_sort |-> <<"x">>, comments |-> MagazineComment] }

\* formats and dates a book of the model may have
Files ==
    { [formats |-> <<"EPUB">>, last_modified |-> IsoDate(2), timestamp |-> IsoDate(1)],
      [formats |-> <<"PDF", "MOBI">>, last_modified |-> NullDate, timestamp |-> IsoDate(5)] }

BookRows ==
    { [title |-> c.title, author_sort |-> c.author_sort, comments |-> c.comments,
       formats |-> f.formats, last_modified |-> f.last_modified,
       timestamp |-> f.timestamp] : c \in Catalogued, f \in Files }

Flags == [find_only : BOOLEAN, interactive : BOOLEAN,
          auto_delete : BOOLEAN, dry_run : BOOLEAN]

-----------------------------------------------------------------------------
(* find_duplicates_sql *)

\* The JOIN of lines 60-63 and the WHERE of lines 68-71: the pairs b1 < b2 of
\* equal LOWER(TRIM(title)) and LOWER(TRIM(author_sort)), neither a magazine
DuplicateRows(lib) ==
    { r \in (DOMAIN lib) \X (DOMAIN lib) :
        /\ SqlKey(lib[r[1]].title) = SqlKey(lib[r[2]].title)
        /\ SqlKey(lib[r[1]].author_sort) = SqlKey(lib[r[2]].author_sort)
        /\ r[1] < r[2]
        /\ ~ContainsMagazine(lib[r[1]].comments)
        /\ ~ContainsMagazine(lib[r[2]].comments) }

\* The slot of an int in the hash table of a CPython set: hash(i) = i, the
\* table has 8 slots up to 4 elements and 32 slots from the 5th on
SetSlot(id, S) == IF Cardinality(S) <= 4 THEN id % 8 ELSE id % 32

\* list(group) of line 103: the elements of the set in table order (the ids
\* of the model fall into different slots; equal slots enumerate by id)
RECURSIVE ListOfSet(_, _)
ListOfSet(S, All) ==
    IF S = {} THEN <<>>
    ELSE LET x == CHOOSE y \in S : \A z \in S :
                      \/ SetSlot(y, All) < SetSlot(z, All)
                      \/ SetSlot(y, All) = SetSlot(z, All) /\ y <= z
         IN <<x>> \o ListOfSet(S \ {x}, All)

\* the ascending sequence of a set of ids (ORDER BY b1.id, the order in
\* which the keys enter the dict duplicate_groups)
RECURSIVE Ascending(_)
Ascending(S) ==
    IF S = {} THEN <<>>
    ELSE LET x == CHOOSE y \in S : \A z \in S : y <= z
         IN <<x>> \o Ascending(S \ {x})

\* lines 86-100: the set collected under group_key = min(book1_id, book2_id)
GroupOfKey(rows, k) == {k} \cup {r[2] : r \in {q \in rows : q[1] = k}}

\* lines 83-105: one list per group key, keys in order of first row
find_duplicates_sql(lib) ==
    LET rows == DuplicateRows(lib)
        keys == Ascending({r[1] : r \in rows})
    IN [n \in 1..Len(keys) |->
            LET g == GroupOfKey(rows, keys[n]) IN ListOfSet(g, g)]

\* what `library` is when there is no metadata.db at library_path
NoDatabase == [i \in {0} |-> "absent"]

\* the mutant of FindDuplicatesSql: a missing database gives no groups
FindDuplicatesSql_NoCheck(lib) ==
    IF lib = NoDatabase
    THEN [raised |-> FALSE, result |-> <<>>]
    ELSE [raised |-> FALSE, result |-> find_duplicates_sql(lib)]

\* lines 36-39 and 75-108: a call of find_duplicates_sql raises when the
\* database does not exist, and else returns the groups
FindDuplicatesSql(lib) ==
    IF lib = NoDatabase
    THEN [raised |-> TRUE, result |-> <<>>]
    ELSE [raised |-> FALSE, result |-> find_duplicates_sql(lib)]

\* lines 152-166: the details dict of the ids of all groups
get_book_details(book_ids, lib) ==
    [id \in book_ids \cap DOMAIN lib |->
        [id |-> id,
         title |-> lib[id].title,
         authors |-> lib[id].author_sort,
         timestamp |-> lib[id].timestamp,
         last_modified |-> lib[id].last_modified,
         formats |-> lib[id].formats,
         comments |-> lib[id].comments,
         isbn |-> NullText]]

\* lines 370-372: all_book_ids
AllBookIds(groups) == UNION {{groups[n][j] : j \in 1..Len(groups[n])} : n \in 1..Len(groups)}

-----------------------------------------------------------------------------
(* score_book and determine_keeper *)

DEFAULT_FORMAT_PRIORITY == <<"DJVU", "AZW3", "MOBI", "PDF", "EPUB">>

\* format_priority.index(fmt), 0-based
IndexOf(fmt, format_priority) ==
    (CHOOSE i \in 1..Len(format_priority) :
        /\ format_priority[i] = fmt
        /\ \A j \in 1..(i - 1) : format_priority[j] # fmt) - 1

Max(a, b) == IF a >= b THEN a ELSE b

\* lines 189-193: the loop over book['formats']
RECURSIVE MaxFormatScore(_, _)
MaxFormatScore(formats, format_priority) ==
    IF formats = <<>> THEN 0
    ELSE LET rest == MaxFormatScore(SubSeq(formats, 1, Len(formats) - 1), format_priority)
             fmt == formats[Len(formats)]
         IN IF \E i \in 1..Len(format_priority) : format_priority[i] = fmt
            THEN Max(rest, IndexOf(fmt, format_priority))
            ELSE rest

\* line 199: book['last_modified'] or book['timestamp']; None and '' are falsy
EffectiveDate(book) ==
    IF book.last_modified.kind \notin {"null", "empty"}
    THEN book.last_modified ELSE book.timestamp

\* line 203: datetime.fromisoformat raises ValueError for what is no ISO date
FromIsoFormat(date_str) ==
    [raises |-> date_str.kind # "iso", days |-> date_str.days]

\* the mutant of RecencyOutcome: lines 203-206 without the try of line 201
RecencyOutcome_NoTry(book) ==
    LET date_str == EffectiveDate(book)
        date_obj == FromIsoFormat(date_str)
    IN IF date_str.kind \in {"null", "empty"}
       THEN [raised |-> FALSE, recency_score |-> 0]
       ELSE IF date_obj.raises
            THEN [raised |-> TRUE, recency_score |-> 0]
            ELSE [raised |-> FALSE, recency_score |-> date_obj.days]

\* lines 199-208: the date parsed to whole days since the epoch; `except:
\* pass` swallows what the parsing raises and nothing is added
RecencyOutcome(book) ==
    LET date_str == EffectiveDate(book)
        date_obj == FromIsoFormat(date_str)
    IN IF date_str.kind \in {"null", "empty"}
       THEN [raised |-> FALSE, recency_score |-> 0]
       ELSE IF date_obj.raises
            THEN [raised |-> FALSE, recency_score |-> 0]
            ELSE [raised |-> FALSE, recency_score |-> date_obj.days]

RecencyScore(book) == RecencyOutcome(book).recency_score

\* the mutant of score_book: the bonus of line 211 for the number of formats
\* forgotten
score_book_no_bonus(book, format_priority) ==
    MaxFormatScore(book.formats, format_priority) * 1000
        + RecencyScore(book)

score_book(book, format_priority) ==
    MaxFormatScore(book.formats, format_priority) * 1000
        + RecencyScore(book)
        + Len(book.formats) * 10

\* scored_books.sort(key=score, reverse=True): stable, equal scores keep
\* the order of the list
RECURSIVE SortByScore(_, _, _)
SortByScore(ids, bks, format_priority) ==
    IF ids = <<>> THEN <<>>
    ELSE LET front == SortByScore(SubSeq(ids, 1, Len(ids) - 1), bks, format_priority)
             x == ids[Len(ids)]
             sx == score_book(bks[x], format_priority)
             n == Cardinality({i \in 1..Len(front) :
                                 score_book(bks[front[i]], format_priority) >= sx})
         IN SubSeq(front, 1, n) \o <<x>> \o SubSeq(front, n + 1, Len(front))

\* the mutant of determine_keeper: the sort without reverse=True
determine_keeper_ascending(duplicate_group, bks, format_priority) ==
    LET scored_books == SortByScore(duplicate_group, bks, format_priority)
        n == Len(scored_books)
        ascending == [i \in 1..n |-> scored_books[n + 1 - i]]
    IN [keeper_id |-> ascending[1], books_to_delete |-> Tail(ascending)]

\* lines 228-242
determine_keeper(duplicate_group, bks, format_priority) ==
    LET scored_books == SortByScore(duplicate_group, bks, format_priority)
    IN [keeper_id |-> scored_books[1], books_to_delete |-> Tail(scored_books)]

-----------------------------------------------------------------------------
(* delete_book and log_deletion *)

\* how `calibredb remove` ends: exit code 0, another exit code, or
\* subprocess.run raising
Outcomes == {"ok", "nonzero", "exception"}

\* lines 257-277: ran tells whether calibredb was started, ok is the value
\* returned
delete_book(book_id, dry_run, outcome) ==
    IF dry_run
    THEN [ran |-> FALSE, ok |-> TRUE]
    ELSE [ran |-> TRUE, ok |-> (outcome = "ok")]

\* lines 288-298: the fields of the book written to the log file
log_deletion(book) ==
    [id |-> book.id, title |-> book.title, authors |-> book.authors,
     formats |-> book.formats, isbn |-> book.isbn,
     timestamp |-> book.timestamp, last_modified |-> book.last_modified]

-----------------------------------------------------------------------------
(* main *)

Init ==
    /\ args \in Flags
    /\ library \in [BookIds -> BookRows] \cup {NoDatabase}
    /\ pc = "start"
    /\ duplicate_groups = <<>>
    /\ books = <<>>
    /\ gi = 0
    /\ keeper_id = 0
    /\ to_delete = <<>>
    /\ di = 0
    /\ deletion_log = <<>>
    /\ total_to_delete = 0
    /\ log_file = <<>>
    /\ calls = <<>>
    /\ prompts = {}
    /\ decisions = <<>>
    /\ step = "main"
    /\ record = <<>>
    /\ other = <<>>
    /\ priority = <<>>
    /\ scores = <<>>
    /\ metadata = <<>>
    /\ similarity_threshold = 0
    /\ duplicates = <<>>
    /\ returncode = 0
    /\ fetched = 0
    /\ text = <<>>
    /\ normalized = <<>>

group == duplicate_groups[gi]

\* `continue`, or the end of the body of the loop of line 380
NextGroup ==
    IF gi < Len(duplicate_groups)
    THEN pc' = "group" /\ gi' = gi + 1
    ELSE pc' = "summary" /\ gi' = gi

\* nothing was typed at a prompt
NoInput == [kind |-> "none", val |-> 0]

\* the group was decided without a prompt
NoAnswer == [response |-> "none", keeper_input |-> NoInput]

\* history: what was decided for the group of the loop, and on which answers
Decision(k, td, st, answer) ==
    [g |-> gi, group |-> group, keeper |-> k, delete_ids |-> td, state |-> st,
     answer |-> answer]

\* the mutant of ReportOnly: --interactive wins over --find-only, as in
\* the chain that prints the mode
ReportOnly_UnlessInteractive == args.find_only /\ ~args.interactive

\* lines 406-408: with --find-only the group is counted and the loop goes on
ReportOnly == args.find_only

\* lines 430-431: the loop over to_delete starts, or has nothing to do
EnterDelete(k, td, answer) ==
    /\ decisions' = Append(decisions, Decision(k, td, "CONFIRMED", answer))
    /\ IF args.find_only \/ td = <<>>
       THEN NextGroup /\ di' = di
       ELSE pc' = "delete" /\ di' = 1 /\ gi' = gi

\* the mutant of LogAfter: the value delete_book returns is not looked at
LogAfter_Always(log, book, ok) == Append(log, book)

\* lines 439-444: the book joins deletion_log when delete_book returned True
LogAfter(log, book, ok) == IF ok THEN Append(log, book) ELSE log

\* the mutant of AfterTurn: a failed deletion ends the loop over the groups
AfterTurn_StopOnFailure(ok) ==
    IF ~ok THEN pc' = "summary" /\ UNCHANGED <<gi, di>>
    ELSE IF di < Len(to_delete)
         THEN di' = di + 1 /\ UNCHANGED <<pc, gi>>
         ELSE NextGroup /\ di' = di

\* lines 431 and 380: whatever delete_book returned, the loop goes to the
\* next id of to_delete, and after the last one to the next group
AfterTurn(ok) ==
    IF di < Len(to_delete)
    THEN di' = di + 1 /\ UNCHANGED <<pc, gi>>
    ELSE NextGroup /\ di' = di

\* lines 360-374: the groups are found and the details read; no group ends
\* the run at line 364, and so does the exception of line 39, which main()
\* does not catch
FindDuplicates ==
    /\ pc = "start"
    /\ LET call == FindDuplicatesSql(library)
           found == call.result
       IN IF call.raised
          THEN pc' = "raised" /\ UNCHANGED <<duplicate_groups, books, gi>>
          ELSE /\ duplicate_groups' = found
               /\ IF found = <<>>
                  THEN pc' = "done" /\ UNCHANGED <<books, gi>>
                  ELSE /\ books' = get_book_details(AllBookIds(found), library)
                       /\ pc' = "group"
                       /\ gi' = 1
    /\ UNCHANGED <<args, library, keeper_id, to_delete, di, deletion_log,
                   total_to_delete, log_file, calls, prompts, decisions>>
    /\ UNCHANGED <<step, scoreVars, finderVars, fetchVars, stringVars>>

\* line 385: the recommendation for the group (lines 387-403 only print)
DetermineKeeper ==
    /\ pc = "group"
    /\ LET d == determine_keeper(group, books, DEFAULT_FORMAT_PRIORITY)
       IN /\ keeper_id' = d.keeper_id
          /\ to_delete' = d.books_to_delete
    /\ pc' = "decided"
    /\ UNCHANGED <<args, library, duplicate_groups, books, gi, di, deletion_log,
                   total_to_delete, log_file, calls, prompts, decisions>>
    /\ UNCHANGED <<step, scoreVars, finderVars, fetchVars, stringVars>>

\* lines 406-408
FindOnly ==
    /\ pc = "decided"
    /\ ReportOnly
    /\ total_to_delete' = total_to_delete + Len(to_delete)
    /\ decisions' = Append(decisions, Decision(keeper_id, to_delete, "REPORTED", NoAnswer))
    /\ NextGroup
    /\ UNCHANGED <<args, library, duplicate_groups, books, keeper_id, to_delete,
                   di, deletion_log, log_file, calls, prompts>>
    /\ UNCHANGED <<step, scoreVars, finderVars, fetchVars, stringVars>>

Responses == {"y", "", "s", "n"}

\* lines 410-417: "Proceed with recommendation? [Y/n/s(kip)]"
AskProceed ==
    /\ pc = "decided"
    /\ ~ReportOnly
    /\ args.interactive
    /\ prompts' = prompts \cup {gi}
    /\ \E response \in Responses :
          CASE response = "s" ->
                 /\ decisions' = Append(decisions,
                        Decision(keeper_id, to_delete, "SKIPPED",
                                 [response |-> response, keeper_input |-> NoInput]))
                 /\ NextGroup
                 /\ di' = di
            [] response = "n" ->
                 /\ pc' = "ask_keeper"
                 /\ UNCHANGED <<gi, di, decisions>>
            [] OTHER -> EnterDelete(keeper_id, to_delete,
                                    [response |-> response, keeper_input |-> NoInput])
    /\ UNCHANGED <<args, library, duplicate_groups, books, keeper_id, to_delete,
                   deletion_log, total_to_delete, log_file, calls>>
    /\ UNCHANGED <<step, scoreVars, finderVars, fetchVars, stringVars>>

\* what is typed at "Enter book ID to keep (or 'skip')": skip, something
\* int() rejects, or an integer
KeeperInputs ==
    {[kind |-> "skip", val |-> 0], [kind |-> "text", val |-> 0]}
        \cup {[kind |-> "int", val |-> v] : v \in BookIds \cup StrangerIds}

\* the mutant of KeepOnly: the id typed is deleted with the others
KeepOnly_DeleteAll(grp, k) == grp

\* line 424: [bid for bid in group if bid != keeper_id]
KeepOnly(grp, k) == SelectSeq(grp, LAMBDA bid : bid # k)

\* lines 418-427
AskKeeper ==
    /\ pc = "ask_keeper"
    /\ \E keeper_input \in KeeperInputs :
          CASE keeper_input.kind = "skip" ->
                 /\ decisions' = Append(decisions,
                        Decision(keeper_id, to_delete, "SKIPPED",
                                 [response |-> "n", keeper_input |-> keeper_input]))
                 /\ NextGroup
                 /\ UNCHANGED <<keeper_id, to_delete, di>>
            [] keeper_input.kind = "text" ->
                 /\ decisions' = Append(decisions,
                        Decision(keeper_id, to_delete, "SKIPPED",
                                 [response |-> "n", keeper_input |-> keeper_input]))
                 /\ NextGroup
                 /\ UNCHANGED <<keeper_id, to_delete, di>>
            [] OTHER ->
                 LET k == keeper_input.val
                     td == KeepOnly(group, k)
                 IN /\ keeper_id' = k
                    /\ to_delete' = td
                    /\ EnterDelete(k, td, [response |-> "n",
                                           keeper_input |-> keeper_input])
    /\ UNCHANGED <<args, library, duplicate_groups, books, deletion_log,
                   total_to_delete, log_file, calls, prompts>>
    /\ UNCHANGED <<step, scoreVars, finderVars, fetchVars, stringVars>>

\* line 430 without --interactive: straight to the loop over to_delete
Proceed ==
    /\ pc = "decided"
    /\ ~ReportOnly
    /\ ~args.interactive
    /\ EnterDelete(keeper_id, to_delete, NoAnswer)
    /\ UNCHANGED <<args, library, duplicate_groups, books, keeper_id, to_delete,
                   deletion_log, total_to_delete, log_file, calls, prompts>>
    /\ UNCHANGED <<step, scoreVars, finderVars, fetchVars, stringVars>>

\* lines 431-444: one turn of the loop over to_delete; dry_run is the flag
\* the turn looks at (line 434) and hands to delete_book (line 439)
DeleteTurn(dry_run) ==
    /\ pc = "delete"
    /\ di <= Len(to_delete)
    /\ LET book_id == to_delete[di]
           book == books[book_id]
       IN IF dry_run
          THEN /\ total_to_delete' = total_to_delete + 1
               /\ AfterTurn(TRUE)
               /\ UNCHANGED <<calls, deletion_log>>
          ELSE \E outcome \in Outcomes :
                 LET r == delete_book(book_id, dry_run, outcome)
                 IN /\ calls' = Append(calls, [g |-> gi, id |-> book_id,
                                               ran |-> r.ran, ok |-> r.ok])
                    /\ deletion_log' = LogAfter(deletion_log, book, r.ok)
                    /\ total_to_delete' = IF r.ok THEN total_to_delete + 1
                                          ELSE total_to_delete
                    /\ AfterTurn(r.ok)
    /\ UNCHANGED <<args, library, duplicate_groups, books, keeper_id, to_delete,
                   log_file, prompts, decisions>>
    /\ UNCHANGED <<step, scoreVars, finderVars, fetchVars, stringVars>>

\* the mutant of DeleteNext: the loop as it is without a dry-run mode
DeleteNext_NoDryRun == DeleteTurn(FALSE)

DeleteNext == DeleteTurn(args.dry_run)

\* lines 446-469: the summary, then the deletion log is written to the file
Summary ==
    /\ pc = "summary"
    /\ log_file' = IF deletion_log # <<>> /\ ~args.dry_run
                   THEN log_file \o [i \in 1..Len(deletion_log) |->
                                        log_deletion(deletion_log[i])]
                   ELSE log_file
    /\ pc' = "done"
    /\ UNCHANGED <<args, library, duplicate_groups, books, gi, keeper_id, to_delete,
                   di, deletion_log, total_to_delete, calls, prompts, decisions>>
    /\ UNCHANGED <<step, scoreVars, finderVars, fetchVars, stringVars>>

\* lines 450-456: the counts the summary prints, "Duplicate groups found"
\* and "Books deleted" (or "Would delete", "Books that would be deleted")
SummaryCounts == {Len(duplicate_groups), total_to_delete}

Next ==
    \/ FindDuplicates
    \/ DetermineKeeper
    \/ FindOnly
    \/ AskProceed
    \/ AskKeeper
    \/ Proceed
    \/ DeleteNext
    \/ Summary

Spec == Init /\ [][Next]_vars

-----------------------------------------------------------------------------
(* Calls of score_book on two books with one format_priority *)

\* main() at rest while a function is called on its own
MainIdle ==
    /\ args = [find_only |-> FALSE, interactive |-> FALSE,
               auto_delete |-> FALSE, dry_run |-> FALSE]
    /\ library = <<>>
    /\ pc = "idle"
    /\ duplicate_groups = <<>>
    /\ books = <<>>
    /\ gi = 0
    /\ keeper_id = 0
    /\ to_delete = <<>>
    /\ di = 0
    /\ deletion_log = <<>>
    /\ total_to_delete = 0
    /\ log_file = <<>>
    /\ calls = <<>>
    /\ prompts = {}
    /\ decisions = <<>>

\* no grouper of duplicate_finder.py is called
FinderIdle ==
    /\ metadata = <<>>
    /\ similarity_threshold = 0
    /\ duplicates = <<>>
    /\ returncode = 0
    /\ fetched = 0
    /\ text = <<>>
    /\ normalized = <<>>

\* format codes of the data table: three of the default priority list and
\* one that is in no priority list
FormatCodes == {"DJVU", "PDF", "EPUB", "CBZ"}

\* the lists of distinct formats GROUP_CONCAT(d.format) can give (line 137)
FormatLists ==
    UNION {{f \in [1..n -> FormatCodes] : \A a, b \in 1..n : a # b => f[a] # f[b]}
              : n \in 0..MaxFormats}

\* 2020-01-01 and 2023-01-01 as whole days since the epoch
ScoredDates == {NullDate, EmptyDate, BadDate, IsoDate(18262), IsoDate(19358)}

ScoredBooks ==
    [formats : FormatLists, last_modified : ScoredDates,
     timestamp : {NullDate, BadDate, IsoDate(18262)}]

\* lines 328 and 341: the default list, or what --format-priority gives
Priorities == {DEFAULT_FORMAT_PRIORITY, <<"EPUB", "PDF">>}

ScoreInit ==
    /\ MainIdle
    /\ step = "score"
    /\ record \in ScoredBooks
    /\ other \in {[record EXCEPT !.formats = f, !.last_modified = m] :
                      f \in FormatLists, m \in ScoredDates}
    /\ priority \in Priorities
    /\ scores = <<>>
    /\ FinderIdle

\* what a call of score_book gives: an exception, or the score returned
ScoreCall(book, format_priority) ==
    [raised |-> RecencyOutcome(book).raised,
     score |-> score_book(book, format_priority)]

\* score_book(record, priority) and score_book(other, priority)
ScoreBooks ==
    /\ step = "score"
    /\ scores' = <<ScoreCall(record, priority), ScoreCall(other, priority)>>
    /\ step' = "scored"
    /\ UNCHANGED <<mainVars, record, other, priority, finderVars, fetchVars, stringVars>>

ScoreNext == ScoreBooks

SpecScore == ScoreInit /\ [][ScoreNext]_vars

-----------------------------------------------------------------------------
(* duplicate_finder.py: normalize_string *)

\* the characters of the model that \w of re matches: letters, digits and
\* the underscore
WordChars == {"a", "b", "c", "i", "m", "n", "o", "s", "x", "y", "z",
              "A", "B", "I", "N", "S", "X", "Y", "1", "2", "3", "_"}

\* the characters of the model that \s of re matches
SpaceChars == {" ", "\t"}

\* line 30: s.lower()
lower(s) == [i \in 1..Len(s) |-> LowerChar(s[i])]

\* line 32: re.sub(r'[^\w\s]', '', s)
RECURSIVE RemovePunctuation(_)
RemovePunctuation(s) ==
    IF s = <<>> THEN <<>>
    ELSE IF Head(s) \in WordChars \cup SpaceChars
         THEN <<Head(s)>> \o RemovePunctuation(Tail(s))
         ELSE RemovePunctuation(Tail(s))

RECURSIVE SkipSpace(_)
SkipSpace(s) ==
    IF s # <<>> /\ Head(s) \in SpaceChars THEN SkipSpace(Tail(s)) ELSE s

\* line 34: re.sub(r'\s+', ' ', s)
RECURSIVE CollapseSpace(_)
CollapseSpace(s) ==
    IF s = <<>> THEN <<>>
    ELSE IF Head(s) \in SpaceChars
         THEN <<" ">> \o CollapseSpace(SkipSpace(s))
         ELSE <<Head(s)>> \o CollapseSpace(Tail(s))

RECURSIVE SkipSpaceRight(_)
SkipSpaceRight(s) ==
    IF s # <<>> /\ s[Len(s)] \in SpaceChars
    THEN SkipSpaceRight(SubSeq(s, 1, Len(s) - 1)) ELSE s

\* line 34: .strip()
strip(s) == SkipSpaceRight(SkipSpace(s))

\* lines 25-35; the empty string stands for None as well (line 27)
normalize_string(s) ==
    IF s = <<>> THEN <<>>
    ELSE strip(CollapseSpace(RemovePunctuation(lower(s))))

-----------------------------------------------------------------------------
(* duplicate_finder.py: sorted() of a list of strings, dicts of lists *)

\* ord(c) of the characters of the model
CodePoint(c) ==
    CASE c = "\t" -> 9   [] c = " " -> 32  [] c = "!" -> 33  [] c = "-" -> 45
      [] c = "." -> 46   [] c = "1" -> 49  [] c = "2" -> 50  [] c = "3" -> 51
      [] c = "A" -> 65   [] c = "B" -> 66  [] c = "I" -> 73  [] c = "N" -> 78
      [] c = "S" -> 83   [] c = "X" -> 88  [] c = "Y" -> 89  [] c = "_" -> 95
      [] c = "a" -> 97   [] c = "b" -> 98  [] c = "c" -> 99  [] c = "i" -> 105
      [] c = "m" -> 109  [] c = "n" -> 110 [] c = "o" -> 111 [] c = "s" -> 115
      [] c = "x" -> 120  [] c = "y" -> 121 [] c = "z" -> 122

\* a <= b of two str: code point by code point, a prefix first
RECURSIVE StrLeq(_, _)
StrLeq(a, b) ==
    IF a = <<>> THEN TRUE
    ELSE IF b = <<>> THEN FALSE
    ELSE IF Head(a) = Head(b) THEN StrLeq(Tail(a), Tail(b))
    ELSE CodePoint(Head(a)) < CodePoint(Head(b))

\* sorted(list of str)
RECURSIVE sorted(_)
sorted(l) ==
    IF l = <<>> THEN <<>>
    ELSE LET n == CHOOSE i \in 1..Len(l) : \A j \in 1..Len(l) : StrLeq(l[i], l[j])
         IN <<l[n]>> \o sorted(SubSeq(l, 1, n - 1) \o SubSeq(l, n + 1, Len(l)))

\* the keys of a defaultdict(list) in insertion order, given the keys of
\* the appends in the order they are made
RECURSIVE KeysInOrder(_)
KeysInOrder(ks) ==
    IF ks = <<>> THEN <<>>
    ELSE LET init == KeysInOrder(SubSeq(ks, 1, Len(ks) - 1))
             k == ks[Len(ks)]
         IN IF \E i \in 1..Len(init) : init[i] = k THEN init ELSE Append(init, k)

\* the list a defaultdict(list) holds under key k after the appends
RECURSIVE ListUnder(_, _)
ListUnder(appends, k) ==
    IF appends = <<>> THEN <<>>
    ELSE LET e == Head(appends)
         IN IF e.key = k THEN <<e.book>> \o ListUnder(Tail(appends), k)
            ELSE ListUnder(Tail(appends), k)

\* the dict after the appends, as the list of its items
DictOfLists(appends) ==
    LET ks == KeysInOrder([i \in 1..Len(appends) |-> appends[i].key])
    IN [n \in 1..Len(ks) |-> [key |-> ks[n], members |-> ListUnder(appends, ks[n])]]

\* lines 64 and 129: {k: v for k, v in groups.items() if len(v) > 1}
RECURSIVE MoreThanOne(_)
MoreThanOne(items) ==
    IF items = <<>> THEN <<>>
    ELSE IF Len(Head(items).members) > 1
         THEN <<Head(items)>> \o MoreThanOne(Tail(items))
         ELSE MoreThanOne(Tail(items))

-----------------------------------------------------------------------------
(* duplicate_finder.py: find_exact_duplicates *)

\* the mutant of ExactKey: the authors not sorted
ExactKey_Unsorted(book) ==
    <<normalize_string(book.title),
      [i \in 1..Len(book.authors) |-> normalize_string(book.authors[i])]>>

\* lines 47-60 for fields = ["title", "authors"], authors being a list
ExactKey(book) ==
    <<normalize_string(book.title),
      sorted([i \in 1..Len(book.authors) |-> normalize_string(book.authors[i])])>>

\* lines 37-65
find_exact_duplicates(bks) ==
    MoreThanOne(DictOfLists([i \in 1..Len(bks) |->
                                [key |-> ExactKey(bks[i]), book |-> bks[i]]]))

-----------------------------------------------------------------------------
(* Calls of find_exact_duplicates *)

\* calibredb list is not run
FetchIdle ==
    /\ returncode = 0
    /\ fetched = 0

\* normalize_string is not called
StringIdle ==
    /\ text = <<>>
    /\ normalized = <<>>

\* score_book is not called
ScoreIdle ==
    /\ record = <<>>
    /\ other = <<>>
    /\ priority = <<>>
    /\ scores = <<>>

\* the lists of 1 to MaxRecords members of pool, and those with one more
\* member out of extra
ListsOver(pool, extra) ==
    UNION {[1..n -> pool] : n \in 1..MaxRecords}
        \cup {Append(l, x) : l \in [1..MaxRecords -> pool], x \in extra}

\* the books of `calibredb list --for-machine` (lines 9-23) with the given
\* fields; the id of a book is its position
BooksOf(fieldlist) ==
    [i \in 1..Len(fieldlist) |->
        [id |-> i,
         title |-> fieldlist[i].title,
         authors |-> fieldlist[i].authors,
         isbn |-> fieldlist[i].isbn,
         identifiers |-> fieldlist[i].identifiers]]

\* titles that differ in case, punctuation, blanks and nothing else, and
\* two that normalize_string leaves different from them
ExactTitles ==
    { <<>>, <<"!">>, <<"a", "b">>, <<"A", "b", "!">>, <<"a", " ", "b">>,
      <<"A", " ", " ", "b">>, <<" ", "a", "\t", "b", " ">>, <<"a", "_", "b">> }

\* author lists: none, one author, one differing in case and punctuation,
\* two authors in both orders, one author twice, another author
ExactAuthors ==
    { <<>>, << <<"x">> >>, << <<"X", ".">> >>, << <<"x">>, <<"y">> >>,
      << <<"Y">>, <<"x">> >>, << <<"x">>, <<"x">> >>, << <<"y">> >> }

ExactFields ==
    [title : ExactTitles, authors : ExactAuthors,
     isbn : {<<>>}, identifiers : {<<>>}]

ExactExtra ==
    [title : {<<"a", "b">>, <<"a", " ", "b">>},
     authors : {<< <<"x">> >>, << <<"y">>, <<"x">> >>},
     isbn : {<<>>}, identifiers : {<<>>}]

\* b.author_sort of metadata.db for the authors of a book: the authors
\* joined by " & "
RECURSIVE author_sort(_)
author_sort(authors) ==
    IF authors = <<>> THEN <<>>
    ELSE IF Len(authors) = 1 THEN authors[1]
    ELSE authors[1] \o <<" ", "&", " ">> \o author_sort(Tail(authors))

\* the table books of metadata.db (lines 52-63) of the library the books
\* were listed from
LibraryOf(bks) ==
    [i \in 1..Len(bks) |->
        [title |-> bks[i].title, author_sort |-> author_sort(bks[i].authors),
         comments |-> NullText]]

ExactInit ==
    /\ MainIdle
    /\ ScoreIdle
    /\ step = "exact"
    /\ metadata \in {BooksOf(l) : l \in ListsOver(ExactFields, ExactExtra)}
    /\ similarity_threshold = 0
    /\ duplicates = <<>>
    /\ FetchIdle
    /\ StringIdle

\* find_exact_duplicates(books, fields=["title", "authors"])
FindExact ==
    /\ step = "exact"
    /\ duplicates' = find_exact_duplicates(metadata)
    /\ step' = "found"
    /\ UNCHANGED <<mainVars, scoreVars, metadata, similarity_threshold,
                   fetchVars, stringVars>>

ExactNext == FindExact

SpecExact == ExactInit /\ [][ExactNext]_vars

-----------------------------------------------------------------------------
(* duplicate_finder.py: find_isbn_duplicates *)

\* sub in s
Contains(sub, s) ==
    \E i \in 1..(Len(s) - Len(sub) + 1) : SubSeq(s, i, i + Len(sub) - 1) = sub

\* line 125: "isbn" in id_type.lower()
IsbnLike(id_type) == Contains(<<"i", "s", "b", "n">>, lower(id_type))

\* lines 124-126: the values of the items of book['identifiers'] the book is
\* appended under, in the order of the items
RECURSIVE IdentifierKeys(_)
IdentifierKeys(items) ==
    IF items = <<>> THEN <<>>
    ELSE LET item == Head(items)
         IN IF IsbnLike(item.id_type) /\ item.id_value # <<>>
            THEN <<item.id_value>> \o IdentifierKeys(Tail(items))
            ELSE IdentifierKeys(Tail(items))

\* lines 118-126: the keys of isbn_groups the book is appended under, first
\* for the field isbn, then for the field identifiers; an empty isbn stands
\* for a book without the field as well
IsbnKeys(book) ==
    (IF book.isbn # <<>> THEN <<book.isbn>> ELSE <<>>)
        \o IdentifierKeys(book.identifiers)

\* lines 116-126: the appends to isbn_groups, in order
RECURSIVE IsbnAppends(_)
IsbnAppends(bks) ==
    IF bks = <<>> THEN <<>>
    ELSE LET ks == IsbnKeys(Head(bks))
         IN [n \in 1..Len(ks) |-> [key |-> ks[n], book |-> Head(bks)]]
                \o IsbnAppends(Tail(bks))

\* lines 111-130
find_isbn_duplicates(bks) == MoreThanOne(DictOfLists(IsbnAppends(bks)))

-----------------------------------------------------------------------------
(* Calls of find_isbn_duplicates *)

\* identifier values: an ISBN, the same with a hyphen, another one
IsbnValues == {<<"1", "2">>, <<"1", "-", "2">>, <<"3">>}

\* identifier schemes of Calibre: two that hold an ISBN and one that does not
IdTypes == {<<"i", "s", "b", "n">>, <<"I", "S", "B", "N", "1", "3">>,
            <<"a", "m", "a", "z", "o", "n">>}

\* the dicts book['identifiers']: empty, one item (its value may be empty),
\* or an isbn and an ISBN13 item
IdentifierDicts ==
    {<<>>}
      \cup {<<[id_type |-> t, id_value |-> v]>> :
                t \in IdTypes, v \in IsbnValues \cup {<<>>}}
      \cup {<<[id_type |-> <<"i", "s", "b", "n">>, id_value |-> v],
              [id_type |-> <<"I", "S", "B", "N", "1", "3">>, id_value |-> w]>> :
                v \in IsbnValues, w \in IsbnValues}

IsbnFields ==
    [title : {<<"a">>}, authors : {<<>>},
     isbn : IsbnValues \cup {<<>>}, identifiers : IdentifierDicts]

IsbnExtra ==
    [title : {<<"a">>}, authors : {<<>>},
     isbn : {<<>>, <<"1", "2">>},
     identifiers : {<<[id_type |-> <<"i", "s", "b", "n">>, id_value |-> <<"1", "2">>]>>}]

IsbnInit ==
    /\ MainIdle
    /\ ScoreIdle
    /\ step = "isbn"
    /\ metadata \in {BooksOf(l) : l \in ListsOver(IsbnFields, IsbnExtra)}
    /\ similarity_threshold = 0
    /\ duplicates = <<>>
    /\ FetchIdle
    /\ StringIdle

\* find_isbn_duplicates(books)
FindIsbn ==
    /\ step = "isbn"
    /\ duplicates' = find_isbn_duplicates(metadata)
    /\ step' = "found"
    /\ UNCHANGED <<mainVars, scoreVars, metadata, similarity_threshold,
                   fetchVars, stringVars>>

IsbnNext == FindIsbn

SpecIsbn == IsbnInit /\ [][IsbnNext]_vars

-----------------------------------------------------------------------------
(* duplicate_finder.py: difflib.SequenceMatcher(None, a, b).ratio() *)

\* the length of the common run of a from i and b from j, below ahi and bhi
RECURSIVE RunLength(_, _, _, _, _, _)
RunLength(a, b, i, j, ahi, bhi) ==
    IF i < ahi /\ j < bhi /\ a[i] = b[j]
    THEN 1 + RunLength(a, b, i + 1, j + 1, ahi, bhi)
    ELSE 0

\* find_longest_match(alo, ahi, blo, bhi) without junk (titles are shorter
\* than the 200 characters from which autojunk acts): the longest block
\* a[i:i+k] == b[j:j+k] in a[alo:ahi], b[blo:bhi], of those the one starting
\* earliest in a, and of those the one starting earliest in b
find_longest_match(a, b, alo, ahi, blo, bhi) ==
    LET starts == (alo..(ahi - 1)) \X (blo..(bhi - 1))
        run(p) == RunLength(a, b, p[1], p[2], ahi, bhi)
    IN IF \A p \in starts : run(p) = 0
       THEN [a |-> alo, b |-> blo, size |-> 0]
       ELSE LET best == CHOOSE p \in starts :
                    \A q \in starts :
                        \/ run(p) > run(q)
                        \/ run(p) = run(q) /\ p[1] < q[1]
                        \/ run(p) = run(q) /\ p[1] = q[1] /\ p[2] <= q[2]
            IN [a |-> best[1], b |-> best[2], size |-> run(best)]

\* get_matching_blocks: the sum of the sizes of the longest match and of the
\* matching blocks to its left and to its right
RECURSIVE MatchedBetween(_, _, _, _, _, _)
MatchedBetween(a, b, alo, ahi, blo, bhi) ==
    LET m == find_longest_match(a, b, alo, ahi, blo, bhi)
    IN IF m.size = 0 THEN 0
       ELSE m.size
            + (IF alo < m.a /\ blo < m.b
               THEN MatchedBetween(a, b, alo, m.a, blo, m.b) ELSE 0)
            + (IF m.a + m.size < ahi /\ m.b + m.size < bhi
               THEN MatchedBetween(a, b, m.a + m.size, ahi, m.b + m.size, bhi)
               ELSE 0)

\* ratio(): 2.0 * matches / length, kept as the fraction matches2 / length
\* (1.0 for two empty strings)
ratio(a, b) ==
    IF Len(a) + Len(b) = 0 THEN [matches2 |-> 2, length |-> 2]
    ELSE [matches2 |-> 2 * MatchedBetween(a, b, 1, Len(a) + 1, 1, Len(b) + 1),
          length |-> Len(a) + Len(b)]

-----------------------------------------------------------------------------
(* duplicate_finder.py: find_similar_titles *)

\* the mutant of AtLeast: similarity <= similarity_threshold
AtLeast_AtMost(similarity, threshold) ==
    100 * similarity.matches2 <= threshold * similarity.length

\* line 102: similarity >= similarity_threshold, the threshold in hundredths
\* (the fractions of the model are further apart than the floats round)
AtLeast(similarity, threshold) ==
    100 * similarity.matches2 >= threshold * similarity.length

\* line 73: the key of author_groups of a book whose authors are a list
AuthorsKey(book) == sorted(book.authors)

SimilarTo_EmptyTitles(book1, book2, threshold) ==
    LET title1 == normalize_string(book1.title)
        title2 == normalize_string(book2.title)
    IN AtLeast(ratio(title1, title2), threshold)

\* lines 92-102: book2 is appended to the group of book1
SimilarTo(book1, book2, threshold) ==
    LET title1 == normalize_string(book1.title)
        title2 == normalize_string(book2.title)
    IN /\ title1 # <<>>
       /\ title2 # <<>>
       /\ AtLeast(ratio(title1, title2), threshold)

\* lines 86-103: group, for book1 = author_books[i], after the books from
\* the j-th on are looked at
RECURSIVE GroupFrom(_, _, _, _)
GroupFrom(author_books, i, j, threshold) ==
    IF j > Len(author_books) THEN <<>>
    ELSE (IF i # j /\ SimilarTo(author_books[i], author_books[j], threshold)
          THEN <<author_books[j]>> ELSE <<>>)
            \o GroupFrom(author_books, i, j + 1, threshold)

\* lines 85-107: the groups of one author, for the books from the i-th on
RECURSIVE GroupsOfAuthor(_, _, _, _)
GroupsOfAuthor(author, author_books, i, threshold) ==
    IF i > Len(author_books) THEN <<>>
    ELSE LET grp == <<author_books[i]>> \o GroupFrom(author_books, i, 1, threshold)
         IN (IF Len(grp) > 1 THEN <<[key |-> author, members |-> grp]>> ELSE <<>>)
                \o GroupsOfAuthor(author, author_books, i + 1, threshold)

\* lines 79-107: the loop over author_groups.items()
RECURSIVE SimilarGroups(_, _)
SimilarGroups(author_groups, threshold) ==
    IF author_groups = <<>> THEN <<>>
    ELSE LET item == Head(author_groups)
         IN (IF Len(item.members) < 2 THEN <<>>
             ELSE GroupsOfAuthor(item.key, item.members, 1, threshold))
                \o SimilarGroups(Tail(author_groups), threshold)

\* lines 67-109; a group is given with the author key it was found under
find_similar_titles(bks, threshold) ==
    SimilarGroups(DictOfLists([i \in 1..Len(bks) |->
                                  [key |-> AuthorsKey(bks[i]), book |-> bks[i]]]),
                  threshold)

-----------------------------------------------------------------------------
(* Calls of find_similar_titles *)

\* the titles of 1 to MaxTitle letters out of three, one that is empty and
\* one that is empty once normalized
SimilarTitles ==
    UNION {[1..n -> {"a", "b", "c"}] : n \in 1..MaxTitle} \cup {<<>>, <<"!">>}

\* author lists: an author, the same in upper case, two authors in both
\* orders
SimilarAuthors ==
    { << <<"x">> >>, << <<"X">> >>, << <<"x">>, <<"y">> >>, << <<"y">>, <<"x">> >> }

SimilarFields ==
    [title : SimilarTitles, authors : SimilarAuthors,
     isbn : {<<>>}, identifiers : {<<>>}]

SimilarExtra ==
    [title : {<<"a", "b", "c">>}, authors : {<< <<"x">> >>},
     isbn : {<<>>}, identifiers : {<<>>}]

\* similarity_threshold in hundredths: 0.5, the default 0.85, 1.0
Thresholds == {50, 85, 100}

SimilarInit ==
    /\ MainIdle
    /\ ScoreIdle
    /\ step = "similar"
    /\ metadata \in {BooksOf(l) : l \in ListsOver(SimilarFields, SimilarExtra)}
    /\ similarity_threshold \in Thresholds
    /\ duplicates = <<>>
    /\ FetchIdle
    /\ StringIdle

\* find_similar_titles(books, similarity_threshold)
FindSimilar ==
    /\ step = "similar"
    /\ duplicates' = find_similar_titles(metadata, similarity_threshold)
    /\ step' = "found"
    /\ UNCHANGED <<mainVars, scoreVars, metadata, similarity_threshold,
                   fetchVars, stringVars>>

SimilarNext == FindSimilar

SpecSimilar == SimilarInit /\ [][SimilarNext]_vars

-----------------------------------------------------------------------------
(* Calls of normalize_string *)

\* main() and the groupers at rest
AllIdle ==
    /\ MainIdle
    /\ ScoreIdle
    /\ metadata = <<>>
    /\ similarity_threshold = 0
    /\ duplicates = <<>>
    /\ FetchIdle

\* a letter in both cases, a digit, a blank, a tab, a punctuation mark and
\* the underscore
TextChars == {"a", "A", "1", " ", "\t", "!", "_"}

Texts == UNION {[1..n -> TextChars] : n \in 0..MaxText}

\* c.upper() of the letters of the model that have their capital in it
UpperChar(c) ==
    CASE c = "a" -> "A"
      [] c = "b" -> "B"
      [] c = "i" -> "I"
      [] c = "n" -> "N"
      [] c = "s" -> "S"
      [] c = "x" -> "X"
      [] c = "y" -> "Y"
      [] OTHER -> c

\* s.upper()
upper(s) == [i \in 1..Len(s) |-> UpperChar(s[i])]

NormalizeInit ==
    /\ AllIdle
    /\ step = "normalize"
    /\ text \in Texts
    /\ normalized = <<>>

\* normalize_string(s) and normalize_string(s.upper())
Normalize ==
    /\ step = "normalize"
    /\ normalized' = <<normalize_string(text), normalize_string(upper(text))>>
    /\ step' = "normalized"
    /\ UNCHANGED <<mainVars, scoreVars, finderVars, fetchVars, text>>

NormalizeNext == Normalize

SpecNormalize == NormalizeInit /\ [][NormalizeNext]_vars

-----------------------------------------------------------------------------
(* duplicate_finder.py: get_calibre_metadata and find_all_duplicates *)

\* the default of similarity_threshold, in hundredths
DefaultThreshold == 85

\* the mutant of get_calibre_metadata: the exit code is not looked at
get_calibre_metadata_unchecked(code, stdout) ==
    [raised |-> FALSE, books |-> stdout]

\* lines 17-23: the call raises when calibredb list exits non-zero and else
\* returns the books of its output
get_calibre_metadata(code, stdout) ==
    IF code # 0
    THEN [raised |-> TRUE, books |-> <<>>]
    ELSE [raised |-> FALSE, books |-> stdout]

\* the mutant of AllResults: a book of an exact match is left out of the
\* other two searches
AllResults_Merged(bks) ==
    LET exact == find_exact_duplicates(bks)
        grouped == UNION {{exact[n].members[k].id : k \in 1..Len(exact[n].members)} :
                             n \in 1..Len(exact)}
        rest == SelectSeq(bks, LAMBDA b : b.id \notin grouped)
    IN [exact_matches |-> exact,
        similar_titles |-> find_similar_titles(rest, DefaultThreshold),
        isbn_duplicates |-> find_isbn_duplicates(rest)]

\* lines 136-140: the dict results
AllResults(bks) ==
    [exact_matches |-> find_exact_duplicates(bks),
     similar_titles |-> find_similar_titles(bks, DefaultThreshold),
     isbn_duplicates |-> find_isbn_duplicates(bks)]

-----------------------------------------------------------------------------
(* Calls of find_all_duplicates *)

\* books that differ in the case and punctuation of title and author, and
\* that carry an ISBN in the field isbn, in identifiers, in both or not
AllFields ==
    [title : {<<"a", "b">>, <<"A", "b", "!">>, <<"a", "b", "c">>},
     authors : {<< <<"x">> >>, << <<"X">> >>},
     isbn : {<<>>, <<"1", "2">>},
     identifiers : {<<>>, <<[id_type |-> <<"i", "s", "b", "n">>,
                             id_value |-> <<"1", "2">>]>>}]

AllExtra ==
    [title : {<<"a", "b">>}, authors : {<< <<"x">> >>},
     isbn : {<<>>, <<"1", "2">>}, identifiers : {<<>>}]

\* what calibredb list prints and the code it exits with
AllInit ==
    /\ MainIdle
    /\ ScoreIdle
    /\ StringIdle
    /\ step = "all"
    /\ metadata \in {BooksOf(l) : l \in ListsOver(AllFields, AllExtra)}
    /\ returncode \in {0, 1}
    /\ fetched = 0
    /\ similarity_threshold = DefaultThreshold
    /\ duplicates = <<>>

\* find_all_duplicates(library_path), lines 132-142; the exception of line
\* 20 is not caught
FindAll ==
    /\ step = "all"
    /\ fetched' = fetched + 1
    /\ LET call == get_calibre_metadata(returncode, metadata)
       IN IF call.raised
          THEN step' = "raised" /\ duplicates' = duplicates
          ELSE step' = "found_all" /\ duplicates' = AllResults(call.books)
    /\ UNCHANGED <<mainVars, scoreVars, metadata, similarity_threshold,
                   returncode, stringVars>>

AllNext == FindAll

SpecAll == AllInit /\ [][AllNext]_vars

-----------------------------------------------------------------------------
(* Runs of main() and calls of find_all_duplicates *)

FetchInit == Init \/ AllInit

FetchNext == Next \/ AllNext

SpecFetch == FetchInit /\ [][FetchNext]_vars

-----------------------------------------------------------------------------
(* Properties *)

SetOf(seq) == {seq[i] : i \in 1..Len(seq)}

Score(id) == score_book(books[id], DEFAULT_FORMAT_PRIORITY)

\* the calls of delete_book that started calibredb
Invoked == {i \in 1..Len(calls) : calls[i].ran}

\* the calls of delete_book for id that returned True
Succeeded(id) == {i \in 1..Len(calls) : calls[i].id = id /\ calls[i].ok}

EntriesFor(log, id) == {i \in 1..Len(log) : log[i].id = id}

\* the decisions on which delete calls are issued
Executed == {i \in 1..Len(decisions) :
                decisions[i].state = "CONFIRMED" /\ ~args.dry_run /\ ~args.find_only}

\* the ids delete_book was called with while group g was processed, in order
RECURSIVE CalledIn(_, _)
CalledIn(g, n) ==
    IF n = 0 THEN <<>>
    ELSE IF calls[n].g = g THEN Append(CalledIn(g, n - 1), calls[n].id)
         ELSE CalledIn(g, n - 1)

\* C1: with --dry-run, whatever the other flags and the answers at the
\* prompts, calibredb remove is never started for any id and nothing is
\* appended to the deletion log, in memory or in the file
DryRunNeverDeletes ==
    args.dry_run => /\ Invoked = {}
                    /\ log_file = <<>>
                    /\ deletion_log = <<>>

\* a dry run with a prompt answered that counted a would-be deletion and ended
DryRunWitness ==
    /\ args.dry_run /\ args.interactive /\ ~args.find_only
    /\ pc = "done"
    /\ prompts # {}
    /\ total_to_delete > 0

\* C2: with --find-only every group is only reported: no prompt, no call of
\* delete_book for any id, no entry in the deletion log
FindOnlyOnlyReports ==
    args.find_only => /\ prompts = {}
                      /\ calls = <<>>
                      /\ log_file = <<>>
                      /\ deletion_log = <<>>
                      /\ \A i \in 1..Len(decisions) : decisions[i].state = "REPORTED"

\* a find-only run with --interactive and --auto-delete that reported two groups
FindOnlyWitness ==
    /\ args.find_only /\ args.interactive /\ args.auto_delete
    /\ pc = "done"
    /\ Len(decisions) = 2
    /\ total_to_delete > 0

\* C3: the keeper of a group whose deletions were carried out is passed to
\* delete_book at no point of the run
KeeperNeverDeleted ==
    \A i \in Executed : \A n \in 1..Len(calls) : calls[n].id # decisions[i].keeper

\* C4: every decision on which delete calls are issued has its keeper in the
\* group and deletes exactly the other members
ExecutedDecisionsWellFormed ==
    \A i \in Executed :
        /\ decisions[i].keeper \in SetOf(decisions[i].group)
        /\ SetOf(decisions[i].delete_ids) = SetOf(decisions[i].group) \ {decisions[i].keeper}

\* C5: the deletion log, in memory and in the file, holds for each id at most
\* as many entries as calls of delete_book for that id have returned True:
\* no entry before the success, none for a failed call or a call never made
LogOnlyAfterSuccess ==
    \A id \in BookIds :
        /\ Cardinality(EntriesFor(deletion_log, id)) <= Cardinality(Succeeded(id))
        /\ Cardinality(EntriesFor(log_file, id)) <= Cardinality(Succeeded(id))

\* a finished run in which one call failed, another succeeded and the log
\* file received entries
LogOnlyAfterSuccessWitness ==
    /\ pc = "done"
    /\ log_file # <<>>
    /\ \E n \in 1..Len(calls) : ~calls[n].ok
    /\ \E n \in 1..Len(calls) : calls[n].ok

\* C6: at every point of the run the log file holds an entry for every
\* deletion that has succeeded so far
EverySuccessInLogFile ==
    \A id \in BookIds :
        Cardinality(EntriesFor(log_file, id)) >= Cardinality(Succeeded(id))

\* C7: a failed call does not stop the run: once the loop has left a
\* confirmed group, delete_book has been called for every id of its delete
\* list, in order, and inside the group for every id before the current one
FailureDoesNotStop ==
    ~args.dry_run =>
        \A i \in Executed :
            LET d == decisions[i]
                called == CalledIn(d.g, Len(calls))
            IN IF pc = "delete" /\ gi = d.g
               THEN called = SubSeq(d.delete_ids, 1, di - 1)
               ELSE called = d.delete_ids

\* a finished run whose first call failed and was followed by a call in the
\* same group and a call in a later group
FailureDoesNotStopWitness ==
    /\ pc = "done"
    /\ Len(calls) >= 3
    /\ ~calls[1].ok
    /\ calls[2].g = calls[1].g
    /\ \E n \in 1..Len(calls) : calls[n].g > calls[1].g

\* C8: delete_book is called at most once per id in a run
AtMostOneCallPerId ==
    \A m, n \in 1..Len(calls) : m # n => calls[m].id # calls[n].id

\* what C9 says of the result d of determine_keeper on the list ids
GoodDecision(ids, d) ==
    /\ d.keeper_id \in SetOf(ids)
    /\ \A m \in SetOf(ids) : Score(d.keeper_id) >= Score(m)
    /\ SetOf(d.books_to_delete) = SetOf(ids) \ {d.keeper_id}
    /\ Len(d.books_to_delete) = Len(ids) - 1
    /\ \A m \in 1..(Len(d.books_to_delete) - 1) :
          Score(d.books_to_delete[m]) >= Score(d.books_to_delete[m + 1])

\* the lists of distinct ids over the books read
DistinctLists ==
    UNION {{q \in [1..n -> DOMAIN books] : \A a, b \in 1..n : a # b => q[a] # q[b]}
              : n \in 1..Cardinality(DOMAIN books)}

\* C9: for every non-empty list of distinct ids determine_keeper returns a
\* member of highest score as keeper and every other member exactly once,
\* in non-increasing score order, as the delete list; so does main for the group
KeeperIsBest ==
    /\ pc = "group" =>
          \A ids \in DistinctLists :
              GoodDecision(ids, determine_keeper(ids, books, DEFAULT_FORMAT_PRIORITY))
    /\ pc = "decided" =>
          GoodDecision(group, [keeper_id |-> keeper_id, books_to_delete |-> to_delete])

\* a group of three with two different scores has been decided
KeeperIsBestWitness ==
    /\ pc = "decided"
    /\ Len(group) = 3
    /\ Score(keeper_id) > Score(to_delete[2])

\* C10: among the members that tie for the highest score the keeper is the
\* one of lowest id
TieKeepsLowestId ==
    pc = "decided" =>
        \A m \in SetOf(group) :
            Score(m) = Score(keeper_id) => keeper_id <= m

\* the highest 0-based index in format_priority of a format of the book, 0
\* when none of its formats is in the list
BestRank(book, format_priority) ==
    LET ranks == {i - 1 : i \in {j \in 1..Len(format_priority) :
                                    format_priority[j] \in SetOf(book.formats)}}
    IN IF ranks = {} THEN 0 ELSE CHOOSE r \in ranks : \A q \in ranks : q <= r

\* the whole days since the epoch of last_modified when the book has one,
\* else of timestamp; 0 when that date is missing or no ISO date
RecencyDays(book) ==
    LET present == book.last_modified.kind \notin {"null", "empty"}
        eff == IF present THEN book.last_modified ELSE book.timestamp
    IN IF eff.kind = "iso" THEN eff.days ELSE 0

\* C11: of two books that differ only in their formats (as many of them)
\* and in the day they were last modified, the one of the more preferred
\* best format scores strictly higher
FormatDominates ==
    (/\ step = "scored"
     /\ record.last_modified.kind = "iso" /\ other.last_modified.kind = "iso"
     /\ Len(record.formats) = Len(other.formats)
     /\ BestRank(record, priority) > BestRank(other, priority))
        => scores[1].score > scores[2].score

DateNeverRaises ==
    step = "scored" =>
        \A n \in {1, 2} :
            LET book == IF n = 1 THEN record ELSE other
                terms == 1000 * BestRank(book, priority) + 10 * Len(book.formats)
            IN /\ ~scores[n].raised
               /\ book.last_modified.kind = "iso" =>
                      scores[n].score = terms + book.last_modified.days
               /\ book.last_modified.kind \in {"null", "empty"}
                    /\ book.timestamp.kind = "iso" =>
                      scores[n].score = terms + book.timestamp.days
               /\ \/ book.last_modified.kind = "bad"
                  \/ /\ book.last_modified.kind \in {"null", "empty"}
                     /\ book.timestamp.kind \in {"null", "bad"}
                  => scores[n].score = terms

\* one book whose last_modified does not parse while its timestamp would,
\* the other without last_modified and with a timestamp that does not parse
DateNeverRaisesWitness ==
    /\ step = "scored"
    /\ record.last_modified = BadDate /\ record.timestamp = IsoDate(18262)
    /\ record.formats = <<"EPUB">>
    /\ priority = DEFAULT_FORMAT_PRIORITY
    /\ scores[1].score = 4010
    /\ other.last_modified = NullDate /\ other.timestamp = IsoDate(18262)

\* the ids of the members of a group
IdsOf(members) == {members[i].id : i \in 1..Len(members)}

\* the sets of ids of the groups of a dict of lists
GroupSets(items) == {IdsOf(items[n].members) : n \in 1..Len(items)}

\* how often name is among the normalized authors of a book
TimesAuthor(book, name) ==
    Cardinality({i \in 1..Len(book.authors) : normalize_string(book.authors[i]) = name})

\* the normalized authors of two books are the same, whatever their order
SameAuthorsNormalized(b1, b2) ==
    \A name \in {normalize_string(b1.authors[i]) : i \in 1..Len(b1.authors)}
              \cup {normalize_string(b2.authors[i]) : i \in 1..Len(b2.authors)} :
        TimesAuthor(b1, name) = TimesAuthor(b2, name)

Reverse(l) == [i \in 1..Len(l) |-> l[Len(l) + 1 - i]]

SqlGrouped(i, j) ==
    LET groups == find_duplicates_sql(LibraryOf(metadata))
    IN \E n \in 1..Len(groups) :
           {i, j} \subseteq {groups[n][k] : k \in 1..Len(groups[n])}

\* C16: two records of the same authors are grouped by find_duplicates_sql
\* iff they are grouped by find_exact_duplicates
SameNormalizationEverywhere ==
    step = "found" =>
        \A i, j \in 1..Len(metadata) :
            i # j /\ metadata[i].authors = metadata[j].authors =>
                (SqlGrouped(i, j)
                    <=> \E g \in GroupSets(duplicates) : {i, j} \subseteq g)

\* C14: every group a grouper returns holds at least two distinct record
\* ids and no record id twice
GroupsOfDistinctRecords ==
    step = "found" =>
        \A n \in 1..Len(duplicates) :
            /\ Cardinality(IdsOf(duplicates[n].members)) >= 2
            /\ Cardinality(IdsOf(duplicates[n].members)) = Len(duplicates[n].members)

\* the non-empty values a book carries in its isbn field or under an
\* identifiers key containing "isbn"
QualifyingValues(book) ==
    (IF book.isbn # <<>> THEN {book.isbn} ELSE {})
        \cup {book.identifiers[k].id_value :
                k \in {q \in 1..Len(book.identifiers) :
                         /\ IsbnLike(book.identifiers[q].id_type)
                         /\ book.identifiers[q].id_value # <<>>}}

\* two records that share a qualifying value are in one group
SharedIsbnGrouped ==
    step = "found" =>
        \A i, j \in 1..Len(metadata) :
            i # j /\ QualifyingValues(metadata[i]) \cap QualifyingValues(metadata[j]) # {}
                => \E g \in GroupSets(duplicates) : {i, j} \subseteq g

\* a record without a qualifying value is in no group
NoIsbnNotGrouped ==
    step = "found" =>
        \A i \in 1..Len(metadata) :
            QualifyingValues(metadata[i]) = {}
                => \A g \in GroupSets(duplicates) : i \notin g

\* C17: records that share a qualifying identifier value are grouped, a
\* record without one is in no group, and a bucket of records that carry
\* the ISBN in the identifiers mapping only is as long as there are such
\* records with the value
IsbnGrouperContract ==
    /\ SharedIsbnGrouped
    /\ NoIsbnNotGrouped
    /\ step = "found" =>
         \A n \in 1..Len(duplicates) :
            (\A i \in IdsOf(duplicates[n].members) : metadata[i].isbn = <<>>)
              => Len(duplicates[n].members)
                   = Cardinality({i \in 1..Len(metadata) :
                        duplicates[n].key \in QualifyingValues(metadata[i])})

\* record j is in the group anchored at record i
InGroupOf(i, j) ==
    \E n \in 1..Len(duplicates) :
        duplicates[n].members[1].id = i /\ j \in IdsOf(duplicates[n].members)

\* C18: with a threshold at or above the one of the call find_similar_titles
\* returns no more groups, and each of its groups is contained in the group
\* of the same anchor returned by the call
MonotoneInThreshold ==
    step = "found" =>
        \A t \in Thresholds :
            t >= similarity_threshold =>
                LET higher == find_similar_titles(metadata, t)
                IN /\ Len(higher) <= Len(duplicates)
                   /\ \A n \in 1..Len(higher) :
                        \E m \in 1..Len(duplicates) :
                            /\ duplicates[m].members[1].id = higher[n].members[1].id
                            /\ IdsOf(higher[n].members) \subseteq IdsOf(duplicates[m].members)
                            /\ Len(higher[n].members) <= Len(duplicates[m].members)

\* three records of one author: at 0.5 every record anchors a group and the
\* first has both others in its group; at 1.0 only the two of equal title
\* anchor a group, of two members
MonotoneInThresholdWitness ==
    /\ step = "found"
    /\ similarity_threshold = 50
    /\ Len(metadata) = 3
    /\ metadata[2].title = <<"a", "b", "b">>
    /\ Len(duplicates) = 3
    /\ IdsOf(duplicates[1].members) = {1, 2, 3}
    /\ LET higher == find_similar_titles(metadata, 100)
       IN /\ Len(higher) = 2
          /\ IdsOf(higher[1].members) = {1, 3}

\* C19: the similarity of two normalized titles is the same in both orders,
\* and j is in the group anchored at i iff i is in the group anchored at j
SimilaritySymmetric ==
    step = "found" =>
        \A i, j \in 1..Len(metadata) :
            i # j =>
                /\ ratio(normalize_string(metadata[i].title),
                         normalize_string(metadata[j].title))
                     = ratio(normalize_string(metadata[j].title),
                             normalize_string(metadata[i].title))
                /\ InGroupOf(i, j) <=> InGroupOf(j, i)

\* two records of different normalized authors share no group
OtherAuthorsApart ==
    step = "found" =>
        \A i, j \in 1..Len(metadata) :
            i # j /\ ~SameAuthorsNormalized(metadata[i], metadata[j])
                => ~(\E g \in GroupSets(duplicates) : {i, j} \subseteq g)

\* C20: two records of the same normalized authors whose titles are similar
\* at the threshold share a group, and two records of different normalized
\* authors share none
BucketsByNormalizedAuthors ==
    /\ OtherAuthorsApart
    /\ step = "found" =>
         \A i, j \in 1..Len(metadata) :
            (/\ i # j
             /\ SameAuthorsNormalized(metadata[i], metadata[j])
             /\ SimilarTo(metadata[i], metadata[j], similarity_threshold)
             /\ SimilarTo(metadata[j], metadata[i], similarity_threshold))
                => \E g \in GroupSets(duplicates) : {i, j} \subseteq g

\* the letters and digits of the model
Alphanumeric == {"a", "b", "c", "i", "m", "n", "o", "s", "x", "y", "z",
                 "A", "B", "I", "N", "S", "X", "Y", "1", "2", "3"}

\* t without the characters that are neither alphanumeric nor whitespace
RECURSIVE OnlyAlphanumericAndSpace(_)
OnlyAlphanumericAndSpace(t) ==
    IF t = <<>> THEN <<>>
    ELSE (IF Head(t) \in Alphanumeric \cup SpaceChars THEN <<Head(t)>> ELSE <<>>)
            \o OnlyAlphanumericAndSpace(Tail(t))

\* the result has no whitespace at its ends, no whitespace but the blank and
\* no two blanks in a row
SpaceCollapsed(r) ==
    /\ r # <<>> => r[1] # " " /\ r[Len(r)] # " "
    /\ \A i \in 1..Len(r) : r[i] # "\t"
    /\ \A i \in 1..(Len(r) - 1) : ~(r[i] = " " /\ r[i + 1] = " ")

\* the words of t: its maximal runs without whitespace, in order
RECURSIVE Words(_)
Words(t) ==
    IF t = <<>> THEN <<>>
    ELSE IF Head(t) \in SpaceChars THEN Words(Tail(t))
    ELSE LET rest == Words(Tail(t))
         IN IF Len(t) > 1 /\ t[2] \notin SpaceChars
            THEN <<(<<Head(t)>> \o Head(rest))>> \o Tail(rest)
            ELSE <<(<<Head(t)>>)>> \o rest

\* C21: normalize_string gives "" for an empty input and else the input in
\* lower case without the characters that are neither alphanumeric nor
\* whitespace, whitespace runs collapsed to one blank and the ends trimmed;
\* normalize(s) == normalize(s.upper())
NormalizeAsDescribed ==
    step = "normalized" =>
        /\ text = <<>> => normalized[1] = <<>>
        /\ SpaceCollapsed(normalized[1])
        /\ Words(normalized[1]) = Words(OnlyAlphanumericAndSpace(lower(text)))
        /\ normalized[1] = normalized[2]

\* normalize(s) == normalize(s.upper())
UpperNormalizesTheSame ==
    step = "normalized" => normalized[1] = normalized[2]

\* C22: when the database is missing or calibredb list exits non-zero the
\* fetch raises and the run ends there: no group and no result is used, no
\* delete call is made and nothing is logged
FetchFailureEndsRun ==
    /\ library = NoDatabase =>
          /\ pc \in {"start", "raised"}
          /\ duplicate_groups = <<>> /\ books = <<>> /\ decisions = <<>>
          /\ calls = <<>> /\ deletion_log = <<>> /\ log_file = <<>>
    /\ pc = "raised" => library = NoDatabase
    /\ returncode # 0 =>
          /\ step \in {"all", "raised"}
          /\ duplicates = <<>>
          /\ calls = <<>> /\ deletion_log = <<>> /\ log_file = <<>>
    /\ step = "raised" => returncode # 0 /\ fetched = 1

\* main() has raised at the call of find_duplicates_sql
FetchFailureEndsRunWitness ==
    /\ pc = "raised"
    /\ library = NoDatabase
    /\ args.auto_delete /\ ~args.dry_run /\ ~args.find_only

\* find_all_duplicates has raised at the call of get_calibre_metadata
MetadataFailureWitness ==
    /\ step = "raised"
    /\ returncode = 1
    /\ Len(metadata) = 2

\* the ids of the groups of a list of lists of books
ListSets(groups) == {IdsOf(groups[n].members) : n \in 1..Len(groups)}

\* C24: find_all_duplicates runs calibredb list once and returns the three
\* collections exact_matches, similar_titles and isbn_duplicates, each what
\* its grouper returns for the books fetched, a pair found by several
\* groupers being in each of their collections
AllThreeSideBySide ==
    step = "found_all" =>
        /\ fetched = 1
        /\ DOMAIN duplicates = {"exact_matches", "similar_titles", "isbn_duplicates"}
        /\ duplicates.exact_matches = find_exact_duplicates(metadata)
        /\ duplicates.similar_titles = find_similar_titles(metadata, DefaultThreshold)
        /\ duplicates.isbn_duplicates = find_isbn_duplicates(metadata)

\* two books found by the exact, by the similar-title and by the ISBN
\* grouper are in all three collections
AllThreeSideBySideWitness ==
    /\ step = "found_all"
    /\ Len(metadata) = 2
    /\ metadata[1].title # metadata[2].title
    /\ ListSets(duplicates.exact_matches) = {{1, 2}}
    /\ ListSets(duplicates.similar_titles) = {{1, 2}}
    /\ Len(duplicates.similar_titles) = 2
    /\ ListSets(duplicates.isbn_duplicates) = {{1, 2}}

\* the loop of main() is past the group of index g
Finished(g) == pc \in {"summary", "done"} \/ gi > g

\* C27: in a run with --interactive (and without --find-only) every group is
\* decided at its own prompt: after 's', or 'n' and then 'skip' or no
\* integer, the group is skipped and delete_book is not called for it; after
\* 'n' and an integer k delete_book is called for exactly the ids of the
\* group other than k; after any other answer for exactly the recommended
\* ids; so the ids of a group depend on its own answer only
PromptDecidesGroup ==
    args.interactive /\ ~args.find_only =>
        \A n \in 1..Len(decisions) :
            LET d == decisions[n]
                a == d.answer
                recommended == determine_keeper(d.group, books, DEFAULT_FORMAT_PRIORITY)
                called == CalledIn(d.g, Len(calls))
            IN /\ d.g = n /\ n \in prompts
               /\ d.group = duplicate_groups[n]
               /\ a.response \in Responses
               /\ \/ a.response = "s"
                  \/ a.response = "n" /\ a.keeper_input.kind \in {"skip", "text"}
                  => d.state = "SKIPPED" /\ called = <<>>
               /\ a.response = "n" /\ a.keeper_input.kind = "int" =>
                     /\ d.state = "CONFIRMED"
                     /\ SetOf(d.delete_ids) = SetOf(d.group) \ {a.keeper_input.val}
                     /\ Cardinality(SetOf(d.delete_ids)) = Len(d.delete_ids)
                     /\ Finished(n) /\ ~args.dry_run => called = d.delete_ids
               /\ a.response \notin {"s", "n"} =>
                     /\ d.state = "CONFIRMED"
                     /\ d.delete_ids = recommended.books_to_delete
                     /\ Finished(n) /\ ~args.dry_run => called = d.delete_ids

\* an interactive run of two groups: the keeper of the first overridden by
\* a member of the group, the second skipped
PromptDecidesGroupWitness ==
    /\ args.interactive /\ ~args.find_only /\ ~args.dry_run
    /\ pc = "done"
    /\ Len(decisions) = 2
    /\ decisions[1].answer.response = "n"
    /\ decisions[1].answer.keeper_input.kind = "int"
    /\ decisions[1].answer.keeper_input.val \in SetOf(decisions[1].group)
    /\ decisions[1].answer.keeper_input.val
          # determine_keeper(decisions[1].group, books, DEFAULT_FORMAT_PRIORITY).keeper_id
    /\ Len(CalledIn(1, Len(calls))) = 2
    /\ decisions[2].answer.response = "s"

\* the calls of delete_book that returned False
Failed == {i \in 1..Len(calls) : ~calls[i].ok}

\* the groups left skipped at a prompt
Skipped == {n \in 1..Len(decisions) : decisions[n].state = "SKIPPED"}

\* C23: at the end of a run the number of failed delete calls and the
\* number of skipped groups are among the counts of the summary, and the
\* count of deleted books is the number of delete calls that returned True
EndOfRunCounts ==
    pc = "done" /\ duplicate_groups # <<>> =>
        /\ Failed # {} => Cardinality(Failed) \in SummaryCounts
        /\ Skipped # {} => Cardinality(Skipped) \in SummaryCounts
        /\ ~args.dry_run /\ ~args.find_only =>
              total_to_delete = Cardinality({i \in 1..Len(calls) : calls[i].ok})

\* the summary counts the delete calls that returned True
SucceededCounted ==
    pc = "done" /\ ~args.dry_run /\ ~args.find_only =>
        total_to_delete = Cardinality({i \in 1..Len(calls) : calls[i].ok})

\* --auto-delete alone
AutoDeleteRun ==
    args.auto_delete /\ ~args.dry_run /\ ~args.find_only /\ ~args.interactive

\* no two groups of find_duplicates_sql share a record
NoOverlap ==
    \A m, n \in 1..Len(duplicate_groups) :
        m # n => SetOf(duplicate_groups[m]) \cap SetOf(duplicate_groups[n]) = {}

\* C25: in a run with --auto-delete alone every group of find_duplicates_sql
\* has a record that delete_book is never called with
AutoDeleteSparesOne ==
    AutoDeleteRun =>
        \A n \in 1..Len(duplicate_groups) :
            \E id \in SetOf(duplicate_groups[n]) :
                \A i \in 1..Len(calls) : calls[i].id # id

\* the same for runs whose groups do not overlap
AutoDeleteSparesOneApart ==
    AutoDeleteRun /\ NoOverlap =>
        \A n \in 1..Len(duplicate_groups) :
            \E id \in SetOf(duplicate_groups[n]) :
                \A i \in 1..Len(calls) : calls[i].id # id

\* C26: delete_book is called for a group only with --auto-delete, or with
\* --interactive after a prompt for the group that did not skip it; a run
\* with none of the four flags calls delete_book for no group
DeletesPolicyGated ==
    \A i \in 1..Len(calls) :
        \/ args.auto_delete
        \/ /\ args.interactive
           /\ calls[i].g \in prompts
           /\ decisions[calls[i].g].state = "CONFIRMED"

\* the same for the runs with --auto-delete or --interactive
DeletesGatedWhenFlagged ==
    args.auto_delete \/ args.interactive =>
        \A i \in 1..Len(calls) :
            \/ args.auto_delete
            \/ /\ args.interactive
               /\ calls[i].g \in prompts
               /\ decisions[calls[i].g].state = "CONFIRMED"

\* the records of the library with the title/author key of record id,
\* magazine issues left out
SameKey(id) ==
    {o \in DOMAIN library :
        /\ SqlKey(library[o].title) = SqlKey(library[id].title)
        /\ SqlKey(library[o].author_sort) = SqlKey(library[id].author_sort)
        /\ ~ContainsMagazine(library[o].comments)}

\* C28: the groups of find_duplicates_sql share no record, and each is the
\* whole class of the records with its title/author key
GroupsPartition ==
    pc \notin {"start", "raised"} =>
        /\ NoOverlap
        /\ \A n \in 1..Len(duplicate_groups) :
              \A id \in SetOf(duplicate_groups[n]) :
                  SetOf(duplicate_groups[n]) = SameKey(id)

\* the ids of the calls of delete_book that returned True, in order
RECURSIVE DeletedInOrder(_)
DeletedInOrder(n) ==
    IF n = 0 THEN <<>>
    ELSE IF calls[n].ok THEN Append(DeletedInOrder(n - 1), calls[n].id)
         ELSE DeletedInOrder(n - 1)

\* C30: at the end of a run without --dry-run and --find-only the log file
\* has one entry per record whose deletion succeeded, as many as the summary
\* says were deleted, in the order of the deletions, each with the fields
\* read before the deletions
OneLogEntryPerDeleted ==
    pc = "done" /\ ~args.dry_run /\ ~args.find_only =>
        /\ Len(log_file) = Cardinality(SetOf(DeletedInOrder(Len(calls))))
        /\ Len(log_file) = total_to_delete
        /\ [i \in 1..Len(log_file) |-> log_file[i].id] = DeletedInOrder(Len(calls))
        /\ \A i \in 1..Len(log_file) :
              log_file[i] = log_deletion(get_book_details(DOMAIN library, library)[log_file[i].id])

\* the same for runs in which no record is passed to delete_book twice
OneLogEntryPerDeletedOnce ==
    (/\ pc = "done" /\ ~args.dry_run /\ ~args.find_only
     /\ \A i, j \in 1..Len(calls) : i # j => calls[i].id # calls[j].id) =>
        /\ Len(log_file) = Cardinality(SetOf(DeletedInOrder(Len(calls))))
        /\ Len(log_file) = total_to_delete
        /\ [i \in 1..Len(log_file) |-> log_file[i].id] = DeletedInOrder(Len(calls))
        /\ \A i \in 1..Len(log_file) :
              log_file[i] = log_deletion(get_book_details(DOMAIN library, library)[log_file[i].id])

\* the positions in metadata of the books of the author bucket of book i
Bucket(i) ==
    {j \in 1..Len(metadata) : AuthorsKey(metadata[j]) = AuthorsKey(metadata[i])}

\* the positions of the books of the bucket of book i, other than i, whose
\* normalized title and that of i are non-empty and similar at the threshold
Matches(i) ==
    {j \in Bucket(i) \ {i} :
        LET a == normalize_string(metadata[i].title)
            b == normalize_string(metadata[j].title)
        IN /\ a # <<>>
           /\ b # <<>>
           /\ 100 * ratio(a, b).matches2 >= similarity_threshold * ratio(a, b).length}

\* the books that have a match in their bucket
Anchors == {i \in 1..Len(metadata) : Matches(i) # {}}

\* the ids of the members of a group, in order
IdList(members) == [n \in 1..Len(members) |-> members[n].id]

\* C29: find_similar_titles returns one group for each book with a match in
\* its author bucket and no other group; the group of book i is i followed
\* by its matches in bucket order
OneGroupPerAnchor ==
    step = "found" =>
        /\ Len(duplicates) = Cardinality(Anchors)
        /\ \A i \in Anchors :
              \E n \in 1..Len(duplicates) :
                  IdList(duplicates[n].members) = <<i>> \o Ascending(Matches(i))
        /\ \A n \in 1..Len(duplicates) : duplicates[n].members[1].id \in Anchors

\* a bucket of three books: two anchors whose groups overlap, one of them
\* with two matches, and a book without a match
OneGroupPerAnchorWitness ==
    /\ step = "found"
    /\ Len(metadata) = 3
    /\ Bucket(1) = {1, 2, 3}
    /\ Cardinality(Anchors) = 2
    /\ \E i \in Anchors : Cardinality(Matches(i)) = 2
    /\ Len(duplicates) = 2

=============================================================================
